---- MODULE Spec2Model ----
(***************************************************************************)
(* gomuks/push: an FCM push gateway (src/push.go).                         *)
(*                                                                         *)
(* The module models                                                       *)
(*   - handlePushProxy, the handler of POST /_gomuks/push/fcm, with the    *)
(*     JSON decoder, ToFCM/GetPriority and the classification of the       *)
(*     error fcmClient.Send returns;                                       *)
(*   - main: the initialisation of fcmClient, the ServeMux routes, the     *)
(*     signal goroutine that calls server.Shutdown with a 5 s context,     *)
(*     ListenAndServe and the exit of the process.                         *)
(*                                                                         *)
(* The specifications share the variables:                                 *)
(*   Spec         the whole program, requests arriving through the mux;    *)
(*   LiveSpec     Spec with the fairness of the scheduler and the timers;  *)
(*   SpecHandler  handlePushProxy called as a function on one request      *)
(*                drawn from HandlerInputs (any path, any length);         *)
(*   SpecToFCM    handlePushProxy on requests that carry every payload of  *)
(*                up to MaxBytes bytes, for the encoding done by ToFCM.    *)
(***************************************************************************)
EXTENDS Integers, Sequences, FiniteSets

VARIABLES
    reqs,        \* request slot -> the request, its handler's position and what it did
    fcmClient,   \* var fcmClient *messaging.Client: "nil" or "client"
    mainPc,      \* position of main()
    sigPc,       \* position of the signal goroutine of main()
    inShutdown,  \* http.Server: Shutdown has been called, listeners are closed
    exitCode     \* "running", or the exit status of the process: "0" or "2" (panic)

vars == <<reqs, fcmClient, mainPc, sigPc, inShutdown, exitCode>>

(***************************************************************************)
(* Bounds of the model.                                                    *)
(***************************************************************************)
\* number of request slots (connections handled concurrently)
MaxReqs == 2
\* largest raw payload length, in bytes, of the requests of SpecHandler
MaxPayloadLen == 3750
\* largest payload, in bytes, whose content the requests of SpecToFCM carry
MaxBytes == 4

Reqs == 1..MaxReqs

(***************************************************************************)
(* Program constants.                                                      *)
(***************************************************************************)
maxPayloadLength == 4000
maxContentLength == 4096

StatusOK == 200
StatusBadRequest == 400
StatusNotFound == 404
StatusRequestEntityTooLarge == 413
StatusInternalServerError == 500

PushPath == "/_gomuks/push/fcm"

\* os.Getenv("FCM_PACKAGE_NAME"), read once when the package is initialised
fcmPackageName == "app.gomuks.android"

\* the two error messages handlePushProxy answers 404 for
ErrEntityNotFound == "Requested entity was not found."
ErrSenderIdMismatch == "SenderId mismatch"

(***************************************************************************)
(* type PushRequest and its methods.                                       *)
(* Payload is a byte slice. PayloadLen is its length, which is all the     *)
(* handler looks at; Payload is its content, a sequence of bytes, which    *)
(* ToFCM encodes. The content of a long payload is not kept: such a        *)
(* payload has Payload = <<>> with PayloadLen > 0, and the message built   *)
(* from it has its length (DataPayloadLen) but no content (DataPayload).   *)
(***************************************************************************)
\* var req PushRequest: the zero value
ZeroPushRequest ==
    [Token |-> "", Owner |-> "", PayloadLen |-> 0, Payload |-> <<>>,
     HighPriority |-> FALSE]

\* base64.StdEncoding.EncodedLen(n): padded encoding, 4 characters per 3 bytes
EncodedLen(n) == ((n + 2) \div 3) * 4

\* the alphabets of base64.StdEncoding and base64.URLEncoding
StdAlphabet ==
    <<"A", "B", "C", "D", "E", "F", "G", "H", "I", "J", "K", "L", "M",
      "N", "O", "P", "Q", "R", "S", "T", "U", "V", "W", "X", "Y", "Z",
      "a", "b", "c", "d", "e", "f", "g", "h", "i", "j", "k", "l", "m",
      "n", "o", "p", "q", "r", "s", "t", "u", "v", "w", "x", "y", "z",
      "0", "1", "2", "3", "4", "5", "6", "7", "8", "9", "+", "/">>

URLAlphabet == [i \in 1..64 |-> CASE i = 63 -> "-" [] i = 64 -> "_" [] OTHER -> StdAlphabet[i]]

\* (*Encoding).EncodeToString with padding: every group of 3 bytes gives 4
\* characters of 6 bits each; a last group of 1 or 2 bytes gives 2 or 3
\* characters and is filled up with "=".
Encode(alphabet, src) ==
    LET n == Len(src)
        byte(i) == IF i <= n THEN src[i] ELSE 0
        val(g) == byte(3 * g + 1) * 65536 + byte(3 * g + 2) * 256 + byte(3 * g + 3)
        sextet(g, k) ==
            CASE k = 0 -> val(g) \div 262144
              [] k = 1 -> (val(g) \div 4096) % 64
              [] k = 2 -> (val(g) \div 64) % 64
              [] OTHER -> val(g) % 64
        \* the characters of group g that carry bits of src
        used(g) == IF 3 * g + 3 <= n THEN 4 ELSE (n - 3 * g) + 1
    IN  [i \in 1..EncodedLen(n) |->
            LET g == (i - 1) \div 4
                k == (i - 1) % 4
            IN  IF k < used(g) THEN alphabet[sextet(g, k) + 1] ELSE "="]

\* base64.StdEncoding.EncodeToString(src)
EncodeToString(src) == Encode(StdAlphabet, src)

\* the two priorities swapped
GetPrioritySwapped(pr) == IF pr.HighPriority THEN "normal" ELSE "high"

\* func (pr *PushRequest) GetPriority() string
GetPriority(pr) == IF pr.HighPriority THEN "high" ELSE "normal"

\* the payload encoded with base64.URLEncoding
ToFCMURLEncoding(pr) ==
    [DataPayloadLen |-> EncodedLen(pr.PayloadLen),
     DataPayload |-> IF Len(pr.Payload) = pr.PayloadLen
                     THEN Encode(URLAlphabet, pr.Payload) ELSE <<>>,
     RestrictedPackageName |-> fcmPackageName,
     Priority |-> GetPriority(pr),
     Token |-> pr.Token]

\* messaging.Message built by ToFCM; DataPayload is Data["payload"], DataPayloadLen
\* its length
ToFCM(pr) ==
    [DataPayloadLen |-> EncodedLen(pr.PayloadLen),
     DataPayload |-> IF Len(pr.Payload) = pr.PayloadLen
                     THEN EncodeToString(pr.Payload) ELSE <<>>,
     RestrictedPackageName |-> fcmPackageName,
     Priority |-> GetPriority(pr),
     Token |-> pr.Token]

NoMessage ==
    [DataPayloadLen |-> 0, DataPayload |-> <<>>, RestrictedPackageName |-> "",
     Priority |-> "", Token |-> ""]

(***************************************************************************)
(* Request bodies and json.NewDecoder(r.Body).Decode(&req).                *)
(*                                                                         *)
(* A body is described by what the decoder distinguishes:                  *)
(*   syntax   "object"    a JSON object                                    *)
(*            "null"      the JSON literal null                            *)
(*            "malformed" not JSON                                         *)
(*            "empty"     no bytes at all (Decode returns io.EOF)          *)
(*   typesOk  FALSE when a member has a value of the wrong JSON type (or   *)
(*            payload is not valid base64)                                 *)
(*   hasToken, token, hasPayload, payloadLen, highPriority: the members;   *)
(*            highPriority is "true", "false" or "absent";                 *)
(*   payload  the bytes the payload member stands for, when the body       *)
(*            carries them (else <<>>).                                    *)
(***************************************************************************)
\* the bytes of "hi!": the payload of up to 3 bytes of the bodies built by Body
SamplePayload == <<104, 105, 33>>

Body(syntax, typesOk, hasToken, hasPayload, payloadLen, highPriority) ==
    [syntax |-> syntax, typesOk |-> typesOk, hasToken |-> hasToken,
     token |-> IF hasToken THEN "abc" ELSE "",
     owner |-> "u1",
     hasPayload |-> hasPayload,
     payloadLen |-> IF hasPayload THEN payloadLen ELSE 0,
     payload |-> IF hasPayload /\ payloadLen <= Len(SamplePayload)
                 THEN SubSeq(SamplePayload, 1, payloadLen) ELSE <<>>,
     highPriority |-> highPriority]

\* a well-formed body with the payload src
BodyWithPayload(hasToken, src, highPriority) ==
    [Body("object", TRUE, hasToken, TRUE, Len(src), highPriority)
        EXCEPT !.payload = src]

\* Decode: [err, req]. encoding/json leaves a field whose member is absent at
\* its zero value and reports no error for it; null decodes to no change.
Decode(body) ==
    CASE body.syntax \in {"malformed", "empty"} ->
            [err |-> TRUE, req |-> ZeroPushRequest]
      [] body.syntax = "null" ->
            [err |-> FALSE, req |-> ZeroPushRequest]
      [] body.syntax = "object" /\ ~body.typesOk ->
            [err |-> TRUE, req |-> ZeroPushRequest]
      [] OTHER ->
            [err |-> FALSE,
             req |-> [Token |-> IF body.hasToken THEN body.token ELSE "",
                      Owner |-> body.owner,
                      PayloadLen |-> IF body.hasPayload THEN body.payloadLen ELSE 0,
                      Payload |-> IF body.hasPayload THEN body.payload ELSE <<>>,
                      HighPriority |-> body.highPriority = "true"]]

\* A lower bound of the size in bytes of a body: {} with the members
\* "token":"abc"  "owner":"u1"  "payload":"<base64>"  "high_priority":false
MinBodyLen(body) ==
    CASE body.syntax = "empty" -> 0
      [] body.syntax = "malformed" -> 1
      [] body.syntax = "null" -> 4
      [] OTHER ->
            2 + 12
              + (IF body.hasToken THEN 14 ELSE 0)
              + (IF body.hasPayload THEN 13 + EncodedLen(body.payloadLen) ELSE 0)
              + (IF body.highPriority = "absent" THEN 0 ELSE 22)

(***************************************************************************)
(* Requests. ContentLength is http.Request.ContentLength: the declared     *)
(* length, or -1 when the transport declares none (chunked transfer).      *)
(* bodyLen is the number of bytes r.Body delivers.                         *)
(***************************************************************************)
NoOutcome == [ok |-> FALSE, text |-> "", returned |-> FALSE]

Request(method, path, body, bodyLen, ContentLength) ==
    [pc |-> "handling",
     method |-> method, path |-> path,
     body |-> body, bodyLen |-> bodyLen, ContentLength |-> ContentLength,
     req |-> ZeroPushRequest,     \* var req PushRequest
     decoded |-> FALSE,           \* Decode has been called on r.Body
     translated |-> 0,            \* calls of req.ToFCM()
     msg |-> NoMessage,           \* the message handed to Send
     sends |-> 0,                 \* calls of fcmClient.Send
     sendCtx |-> "",              \* the context handed to Send
     cancelled |-> FALSE,         \* r.Context() is cancelled
     outcome |-> NoOutcome,       \* what Send returned
     written |-> <<>>,            \* the codes passed to w.WriteHeader, in order
     steps |-> <<>>]              \* the steps of the handler, in order

IdleRequest ==
    [Request("", "", Body("empty", TRUE, FALSE, FALSE, 0, "absent"), 0, 0)
        EXCEPT !.pc = "idle"]

(***************************************************************************)
(* The inputs.                                                             *)
(***************************************************************************)
Methods == {"POST", "GET"}
Paths == {PushPath, "/", "/unknown"}

\* the largest raw length whose encoding fits maxPayloadLength
MaxRawLen == (maxPayloadLength \div 4) * 3

\* payload lengths around the limits
BoundaryLens ==
    {n \in (0..3) \cup ((MaxRawLen - 3)..(MaxRawLen + 3)) \cup {MaxPayloadLen} :
        n <= MaxPayloadLen}

BodyShapes ==
    {Body("object", t, k, p, n, h) :
        t \in BOOLEAN, k \in BOOLEAN, p \in BOOLEAN, n \in BoundaryLens,
        h \in {"true", "false", "absent"}}
    \cup {Body(s, TRUE, FALSE, FALSE, 0, "absent") : s \in {"null", "malformed", "empty"}}

\* JSON allows white space between tokens, so a body can have any size from
\* MinBodyLen up; an empty body has none.
BodyLens(body) ==
    IF body.syntax = "empty" THEN {0}
    ELSE {n \in {MinBodyLen(body), maxContentLength - 1, maxContentLength,
                 maxContentLength + 1, maxContentLength + 1000} :
            n >= MinBodyLen(body)}

\* net/http: a declared Content-Length is the number of bytes the body
\* delivers; without one (chunked transfer) ContentLength is -1.
ContentLengths(bodyLen) == {-1, bodyLen}

\* requests with every body shape, at the limits
BoundaryInputs ==
    UNION {UNION {{Request(m, p, b, n, c) :
                     m \in Methods, p \in {PushPath, "/unknown"}, c \in ContentLengths(n)} :
                  n \in BodyLens(b)} :
           b \in BodyShapes}

\* well-formed requests with every payload length up to MaxPayloadLen
RangeInputs ==
    UNION {{Request("POST", PushPath, Body("object", TRUE, TRUE, TRUE, n, "false"),
                    MinBodyLen(Body("object", TRUE, TRUE, TRUE, n, "false")), c) :
              c \in ContentLengths(MinBodyLen(Body("object", TRUE, TRUE, TRUE, n, "false")))} :
           n \in 0..MaxPayloadLen}

HandlerInputs == BoundaryInputs \cup RangeInputs

\* byte values: the ends of the range and bytes whose bits give the last
\* two characters of the alphabet
ByteValues == {0, 104, 251, 255}

\* every payload of up to MaxBytes bytes over ByteValues
Payloads == UNION {[1..n -> ByteValues] : n \in 0..MaxBytes}

\* well-formed requests that carry these payloads
TranslatorInputs ==
    {Request("POST", PushPath, BodyWithPayload(k, p, h),
             MinBodyLen(BodyWithPayload(k, p, h)), MinBodyLen(BodyWithPayload(k, p, h))) :
        k \in BOOLEAN, p \in Payloads, h \in {"true", "false"}}

\* the requests that arrive over the wire in Spec
WireBodies ==
    {Body("object", TRUE, TRUE, TRUE, 2, "false"),
     Body("object", TRUE, TRUE, TRUE, MaxRawLen + 1, "false"),
     Body("malformed", TRUE, FALSE, FALSE, 0, "absent")}

WireInputs ==
    {Request("POST", PushPath, b, MinBodyLen(b), MinBodyLen(b)) : b \in WireBodies}
    \cup {Request("POST", PushPath, Body("object", TRUE, TRUE, TRUE, 2, "false"),
                  maxContentLength + 1, maxContentLength + 1)}
    \cup {Request("GET", p, Body("empty", TRUE, FALSE, FALSE, 0, "absent"), 0, 0) :
            p \in Paths}
    \cup {Request("POST", "/", Body("empty", TRUE, FALSE, FALSE, 0, "absent"), 0, 0)}

(***************************************************************************)
(* What fcmClient.Send returns: a message id, or an error.                 *)
(***************************************************************************)
ErrCanceled == "context canceled"

Success(id) == [ok |-> TRUE, text |-> id, returned |-> TRUE]
Failure(msg) == [ok |-> FALSE, text |-> msg, returned |-> TRUE]

ErrorMessages ==
    {ErrEntityNotFound, ErrSenderIdMismatch,
     "Requested entity was not found", "requested entity was not found.",
     "SenderId mismatch.", "context deadline exceeded", "internal error", ""}

SendOutcomes == {Success("msg-1")} \cup {Failure(m) : m \in ErrorMessages}

(***************************************************************************)
(* func handlePushProxy(w http.ResponseWriter, r *http.Request)            *)
(***************************************************************************)
Step(q, name) == [q EXCEPT !.steps = Append(@, name)]

\* the 400 branch returning without a status
WriteHeaderSkipsBadRequest(q, code) ==
    [Step(q, "respond") EXCEPT
        !.written = IF code = StatusBadRequest THEN @ ELSE Append(@, code),
        !.pc = "done"]

\* w.WriteHeader(code), after which the handler returns
WriteHeader(q, code) ==
    [Step(q, "respond") EXCEPT !.written = Append(@, code), !.pc = "done"]

\* r.URL.Path != "/_gomuks/push/fcm"
WrongPath(q) == q.path # PushPath

\* the limit taken as exclusive
ContentTooLargeInclusive(q) == q.ContentLength >= maxContentLength

\* r.ContentLength > maxContentLength
ContentTooLarge(q) == q.ContentLength > maxContentLength

\* the raw length compared instead of the encoded one
PayloadTooLargeRaw(pr) == pr.PayloadLen > maxPayloadLength

\* base64.StdEncoding.EncodedLen(len(req.Payload)) > maxPayloadLength
PayloadTooLarge(pr) == EncodedLen(pr.PayloadLen) > maxPayloadLength

\* the second message forgotten
IsNotFoundErrorEntityOnly(msg) == msg = ErrEntityNotFound

\* err.Error() == "Requested entity was not found." || err.Error() == "SenderId mismatch"
IsNotFoundError(msg) == msg = ErrEntityNotFound \/ msg = ErrSenderIdMismatch

\* Send entered before the message is built
CallSendBeforeTranslate(q, client) ==
    LET t == [Step(q, "send") EXCEPT !.sends = @ + 1, !.sendCtx = "request"] IN
    IF client = "nil"
    THEN [t EXCEPT !.pc = "panicked"]
    ELSE [Step(t, "translate") EXCEPT !.translated = @ + 1, !.msg = ToFCM(q.req),
                                      !.pc = "sending"]

\* Send called with context.Background() instead of r.Context()
CallSendBackground(q, client) ==
    LET t == [Step(q, "translate") EXCEPT !.translated = @ + 1, !.msg = ToFCM(q.req)] IN
    IF client = "nil"
    THEN [t EXCEPT !.pc = "panicked"]
    ELSE [Step(t, "send") EXCEPT !.sends = @ + 1, !.sendCtx = "background", !.pc = "sending"]

\* fcmClient.Send(r.Context(), req.ToFCM()) is entered: the handler blocks in
\* Send. On a nil client the method call panics; net/http recovers the panic
\* and closes the connection without a status.
CallSend(q, client) ==
    LET t == [Step(q, "translate") EXCEPT !.translated = @ + 1, !.msg = ToFCM(q.req)] IN
    IF client = "nil"
    THEN [t EXCEPT !.pc = "panicked"]
    ELSE [Step(t, "send") EXCEPT !.sends = @ + 1, !.sendCtx = "request", !.pc = "sending"]

\* the length checked before the path
HandleUntilSendLengthFirst(q, client) ==
    LET measured == Step(q, "length") IN
    IF ContentTooLarge(q) THEN WriteHeader(measured, StatusRequestEntityTooLarge)
    ELSE
    LET routed == Step(measured, "route") IN
    IF WrongPath(q) THEN WriteHeader(routed, StatusNotFound)
    ELSE
    LET d == Decode(q.body)
        parsed == [Step(routed, "decode") EXCEPT !.decoded = TRUE, !.req = d.req] IN
    IF d.err THEN WriteHeader(parsed, StatusBadRequest)
    ELSE
    LET sized == Step(parsed, "payload") IN
    IF PayloadTooLarge(d.req) THEN WriteHeader(sized, StatusRequestEntityTooLarge)
    ELSE CallSend(sized, client)

\* the handler from its entry up to the response, or up to the call of Send
HandleUntilSend(q, client) ==
    LET routed == Step(q, "route") IN
    IF WrongPath(q) THEN WriteHeader(routed, StatusNotFound)
    ELSE
    LET measured == Step(routed, "length") IN
    IF ContentTooLarge(q) THEN WriteHeader(measured, StatusRequestEntityTooLarge)
    ELSE
    LET d == Decode(q.body)
        parsed == [Step(measured, "decode") EXCEPT !.decoded = TRUE, !.req = d.req] IN
    IF d.err THEN WriteHeader(parsed, StatusBadRequest)
    ELSE
    LET sized == Step(parsed, "payload") IN
    IF PayloadTooLarge(d.req) THEN WriteHeader(sized, StatusRequestEntityTooLarge)
    ELSE CallSend(sized, client)

\* the error of Send ignored
HandleSendResultIgnoresError(q, o) ==
    WriteHeader([Step(q, "classify") EXCEPT !.outcome = o], StatusOK)

\* a failed Send tried once more
HandleSendResultRetries(q, o) ==
    LET c == [Step(q, "classify") EXCEPT !.outcome = o] IN
    IF ~o.ok
    THEN IF q.sends < 2
         THEN [Step(q, "send") EXCEPT !.sends = @ + 1]
         ELSE IF IsNotFoundError(o.text)
              THEN WriteHeader(c, StatusNotFound)
              ELSE WriteHeader(c, StatusInternalServerError)
    ELSE WriteHeader(c, StatusOK)

\* the handler after Send has returned
HandleSendResult(q, o) ==
    LET c == [Step(q, "classify") EXCEPT !.outcome = o] IN
    IF ~o.ok
    THEN IF IsNotFoundError(o.text)
         THEN WriteHeader(c, StatusNotFound)
         ELSE WriteHeader(c, StatusInternalServerError)
    ELSE WriteHeader(c, StatusOK)

\* the handler consulting a flag shared between requests
HandleRequestReadsSharedFlag(r) ==
    /\ exitCode = "running"
    /\ reqs[r].pc = "handling"
    /\ reqs' = [reqs EXCEPT ![r] =
                    IF inShutdown
                    THEN WriteHeader(Step(reqs[r], "route"), StatusInternalServerError)
                    ELSE HandleUntilSend(reqs[r], fcmClient)]
    /\ UNCHANGED <<fcmClient, mainPc, sigPc, inShutdown, exitCode>>

\* The handler runs up to its response or to the call of Send.
HandleRequest(r) ==
    /\ exitCode = "running"
    /\ reqs[r].pc = "handling"
    /\ reqs' = [reqs EXCEPT ![r] = HandleUntilSend(reqs[r], fcmClient)]
    /\ UNCHANGED <<fcmClient, mainPc, sigPc, inShutdown, exitCode>>

\* The caller disconnects while Send is in flight: r.Context() is cancelled.
Disconnect(r) ==
    /\ exitCode = "running"
    /\ reqs[r].pc = "sending"
    /\ ~reqs[r].cancelled
    /\ reqs' = [reqs EXCEPT ![r].cancelled = TRUE]
    /\ UNCHANGED <<fcmClient, mainPc, sigPc, inShutdown, exitCode>>

\* the call's context is done: it is the request's, and that is cancelled
CtxDone(q) == q.sendCtx = "request" /\ q.cancelled

\* Send returns; the handler classifies the result and responds. A call
\* whose context is cancelled returns the context's error.
SendReturns(r) ==
    /\ exitCode = "running"
    /\ reqs[r].pc = "sending"
    /\ \E o \in SendOutcomes \cup {Failure(ErrCanceled)} :
          /\ CtxDone(reqs[r]) <=> o = Failure(ErrCanceled)
          /\ reqs' = [reqs EXCEPT ![r] = HandleSendResult(reqs[r], o)]
    /\ UNCHANGED <<fcmClient, mainPc, sigPc, inShutdown, exitCode>>

(***************************************************************************)
(* SpecHandler: handlePushProxy called on one request of HandlerInputs,    *)
(* with fcmClient initialised.                                             *)
(***************************************************************************)
InitHandler ==
    /\ \E q \in HandlerInputs : reqs = [r \in Reqs |-> IF r = 1 THEN q ELSE IdleRequest]
    /\ fcmClient = "client"
    /\ mainPc = "serving"
    /\ sigPc = "waiting"
    /\ inShutdown = FALSE
    /\ exitCode = "running"

NextHandler ==
    \E r \in Reqs : HandleRequest(r) \/ Disconnect(r) \/ SendReturns(r)

SpecHandler == InitHandler /\ [][NextHandler]_vars

(***************************************************************************)
(* SpecToFCM: handlePushProxy called on one request of TranslatorInputs.   *)
(***************************************************************************)
InitToFCM ==
    /\ \E q \in TranslatorInputs : reqs = [r \in Reqs |-> IF r = 1 THEN q ELSE IdleRequest]
    /\ fcmClient = "client"
    /\ mainPc = "serving"
    /\ sigPc = "waiting"
    /\ inShutdown = FALSE
    /\ exitCode = "running"

SpecToFCM == InitToFCM /\ [][NextHandler]_vars

(***************************************************************************)
(* func main(): the routes, the start of the server, the signal goroutine  *)
(* and the end of the process.                                             *)
(***************************************************************************)
\* mux.HandleFunc("POST /_gomuks/push/fcm", handlePushProxy)
\* mux.HandleFunc("GET /{$}", handleIndex)
\* http.ServeMux answers 405 for a path that only other methods match and
\* 404 for a path no pattern matches.
Route(method, path) ==
    CASE path = PushPath /\ method = "POST" -> "push"
      [] path = PushPath -> "405"
      [] path = "/" /\ method \in {"GET", "HEAD"} -> "index"
      [] path = "/" -> "405"
      [] OTHER -> "404"

\* func handleIndex: w.WriteHeader(http.StatusOK), then the page
handleIndex(q) == WriteHeader(Step(q, "index"), StatusOK)

\* the server's handler: the mux dispatches the request
ServeHTTP(q) ==
    LET to == Route(q.method, q.path) IN
    CASE to = "push" -> q
      [] to = "index" -> handleIndex(q)
      [] to = "405" -> WriteHeader(Step(q, "mux"), 405)
      [] OTHER -> WriteHeader(Step(q, "mux"), StatusNotFound)

\* a request whose handler has started and has not returned
Active(q) == q.pc \in {"handling", "sending"}

\* the process ends: every goroutine ends with it
Kill(q) == IF Active(q) THEN [q EXCEPT !.pc = "killed"] ELSE q

Exit(code) ==
    /\ exitCode' = code
    /\ mainPc' = "exited"
    /\ reqs' = [r \in Reqs |-> Kill(reqs[r])]

\* the error of the initialisation dropped: main goes on with a nil client
InitFirebaseIgnoresError ==
    /\ exitCode = "running"
    /\ mainPc = "init"
    /\ \E ok \in BOOLEAN :
          /\ fcmClient' = IF ok THEN "client" ELSE "nil"
          /\ mainPc' = "spawn"
          /\ UNCHANGED <<reqs, sigPc, inShutdown, exitCode>>

\* firebase.NewApp and app.Messaging under exerrors.Must: fcmClient is
\* assigned, or main panics.
InitFirebase ==
    /\ exitCode = "running"
    /\ mainPc = "init"
    /\ \E ok \in BOOLEAN :
          IF ok
          THEN /\ fcmClient' = "client"
               /\ mainPc' = "spawn"
               /\ UNCHANGED <<reqs, sigPc, inShutdown, exitCode>>
          ELSE /\ Exit("2")
               /\ UNCHANGED <<fcmClient, sigPc, inShutdown>>

\* go func() { c := make(chan os.Signal, 1); signal.Notify(...); <-c ...
SpawnSignalHandler ==
    /\ exitCode = "running"
    /\ mainPc = "spawn"
    /\ mainPc' = "listen"
    /\ sigPc' = "waiting"
    /\ UNCHANGED <<reqs, fcmClient, inShutdown, exitCode>>

\* server.ListenAndServe() is entered. It returns ErrServerClosed at once
\* when Shutdown has been called already, and the bind error when the
\* address cannot be bound; main panics on any error but ErrServerClosed.
ListenAndServe ==
    /\ exitCode = "running"
    /\ mainPc = "listen"
    /\ \E bound \in BOOLEAN :
          IF inShutdown
          THEN /\ Exit("0")
               /\ UNCHANGED <<fcmClient, sigPc, inShutdown>>
          ELSE IF bound
          THEN /\ mainPc' = "serving"
               /\ UNCHANGED <<reqs, fcmClient, sigPc, inShutdown, exitCode>>
          ELSE /\ Exit("2")
               /\ UNCHANGED <<fcmClient, sigPc, inShutdown>>

\* a connection that has been accepted and has not delivered a request
\* (http.StateNew)
NewConn == [IdleRequest EXCEPT !.pc = "new"]

\* connections accepted whatever the state of the server
AcceptWhileShuttingDown(r) ==
    /\ exitCode = "running"
    /\ mainPc = "serving"
    /\ reqs[r].pc = "idle"
    /\ reqs' = [reqs EXCEPT ![r] = NewConn]
    /\ UNCHANGED <<fcmClient, mainPc, sigPc, inShutdown, exitCode>>

\* The accept loop of Serve accepts a connection from the listener, which
\* Shutdown closes.
Accept(r) ==
    /\ exitCode = "running"
    /\ mainPc = "serving"
    /\ ~inShutdown
    /\ reqs[r].pc = "idle"
    /\ reqs' = [reqs EXCEPT ![r] = NewConn]
    /\ UNCHANGED <<fcmClient, mainPc, sigPc, inShutdown, exitCode>>

\* The connection's goroutine reads a request and dispatches it. Shutdown
\* closes idle connections only: a connection that is new when Shutdown is
\* called still has its request served.
ReadRequest(r) ==
    /\ exitCode = "running"
    /\ reqs[r].pc = "new"
    /\ \E q \in WireInputs : reqs' = [reqs EXCEPT ![r] = ServeHTTP(q)]
    /\ UNCHANGED <<fcmClient, mainPc, sigPc, inShutdown, exitCode>>

\* A connection that has delivered no request is closed: by the caller, or
\* by Shutdown once it has been new for 5 seconds.
CloseConn(r) ==
    /\ exitCode = "running"
    /\ reqs[r].pc = "new"
    /\ reqs' = [reqs EXCEPT ![r] = IdleRequest]
    /\ UNCHANGED <<fcmClient, mainPc, sigPc, inShutdown, exitCode>>

\* The response has been sent and the connection is idle again.
Release(r) ==
    /\ exitCode = "running"
    /\ reqs[r].pc \in {"done", "panicked"}
    /\ reqs' = [reqs EXCEPT ![r] = IdleRequest]
    /\ UNCHANGED <<fcmClient, mainPc, sigPc, inShutdown, exitCode>>

\* Accept fails while the server is not shutting down: ListenAndServe
\* returns an error that is not ErrServerClosed and main panics.
ListenerError ==
    /\ exitCode = "running"
    /\ mainPc = "serving"
    /\ ~inShutdown
    /\ Exit("2")
    /\ UNCHANGED <<fcmClient, sigPc, inShutdown>>

\* SIGINT or SIGTERM arrives: <-c returns and the goroutine calls
\* server.Shutdown(ctx) with a context of 5 seconds. Shutdown marks the
\* server as shutting down and closes the listeners.
Signal ==
    /\ exitCode = "running"
    /\ sigPc = "waiting"
    /\ sigPc' = "shutdown"
    /\ inShutdown' = TRUE
    /\ UNCHANGED <<reqs, fcmClient, mainPc, exitCode>>

\* Shutdown finds no connection with a request in progress or to come and
\* returns nil; the goroutine calls cancel() and ends.
ShutdownReturns ==
    /\ exitCode = "running"
    /\ sigPc = "shutdown"
    /\ \A r \in Reqs : ~Active(reqs[r]) /\ reqs[r].pc # "new"
    /\ sigPc' = "done"
    /\ UNCHANGED <<reqs, fcmClient, mainPc, inShutdown, exitCode>>

\* The 5 seconds pass with a connection still not idle: Shutdown returns
\* the context's error and exerrors.PanicIfNotNil panics.
DrainExpires ==
    /\ exitCode = "running"
    /\ sigPc = "shutdown"
    /\ \E r \in Reqs : Active(reqs[r]) \/ reqs[r].pc = "new"
    /\ sigPc' = "panicked"
    /\ Exit("2")
    /\ UNCHANGED <<fcmClient, inShutdown>>

\* main blocked for ever after the listener is closed
MainReturnsBlocks ==
    /\ FALSE
    /\ UNCHANGED vars

\* Serve sees the closed listener of a server that is shutting down:
\* ListenAndServe returns ErrServerClosed, and main returns.
MainReturns ==
    /\ exitCode = "running"
    /\ mainPc = "serving"
    /\ inShutdown
    /\ Exit("0")
    /\ UNCHANGED <<fcmClient, sigPc, inShutdown>>

Init ==
    /\ reqs = [r \in Reqs |-> IdleRequest]
    /\ fcmClient = "nil"
    /\ mainPc = "init"
    /\ sigPc = "unborn"
    /\ inShutdown = FALSE
    /\ exitCode = "running"

Next ==
    \/ InitFirebase
    \/ SpawnSignalHandler
    \/ ListenAndServe
    \/ ListenerError
    \/ Signal
    \/ ShutdownReturns
    \/ DrainExpires
    \/ MainReturns
    \/ \E r \in Reqs :
          \/ Accept(r)
          \/ ReadRequest(r)
          \/ CloseConn(r)
          \/ HandleRequest(r)
          \/ Disconnect(r)
          \/ SendReturns(r)
          \/ Release(r)

Spec == Init /\ [][Next]_vars

(***************************************************************************)
(* LiveSpec: Spec with the fairness the Go scheduler and the runtime       *)
(* timers give. A goroutine that can take its next step takes it: main     *)
(* (InitFirebase, SpawnSignalHandler, ListenAndServe, MainReturns), the    *)
(* signal goroutine (ShutdownReturns, and DrainExpires when the timer of   *)
(* the 5 s context fires) and the handlers (HandleRequest). A Send whose   *)
(* context is cancelled returns. Nothing is assumed of the arrival of      *)
(* signals and requests, nor of a Send that is not cancelled: it may       *)
(* never return.                                                           *)
(***************************************************************************)
Fairness ==
    /\ WF_vars(InitFirebase)
    /\ WF_vars(SpawnSignalHandler)
    /\ WF_vars(ListenAndServe)
    /\ WF_vars(MainReturns)
    /\ WF_vars(ShutdownReturns)
    /\ WF_vars(DrainExpires)
    /\ \A r \in Reqs : WF_vars(HandleRequest(r))
    /\ \A r \in Reqs : WF_vars(CtxDone(reqs[r]) /\ SendReturns(r))

LiveSpec == Init /\ [][Next]_vars /\ Fairness

(***************************************************************************)
(* Properties.                                                             *)
(***************************************************************************)
\* the handler of slot r has returned
Completed(q) == q.pc = "done"
\* the handler of slot r has been entered
Entered(q) == q.pc \in {"sending", "done"}

\* ceil(n / 3), without EncodedLen
CeilThird(n) == CHOOSE k \in (n \div 3)..(n \div 3 + 1) : 3 * k >= n /\ 3 * k < n + 3

\* the body parses: JSON whose members have the types of PushRequest
Parses(body) == body.syntax \in {"object", "null"} /\ body.typesOk

\* the request passes the four checks of the handler
Valid(q) ==
    /\ q.path = "/_gomuks/push/fcm"
    /\ q.ContentLength <= 4096
    /\ Parses(q.body)
    /\ 4 * CeilThird(q.body.payloadLen) <= 4000

\* C1: a request on the push path whose declared content length is greater
\* than 4096 is answered 413 and neither the decoder, ToFCM nor Send is
\* invoked; a declared length of exactly 4096 passes this check (the
\* decoder is reached).
C1_DeclaredOversizeRejected ==
    \A r \in Reqs :
        LET q == reqs[r] IN
        (Entered(q) /\ q.path = "/_gomuks/push/fcm") =>
            /\ q.ContentLength > 4096 =>
                  /\ q.written = <<413>>
                  /\ ~q.decoded /\ q.translated = 0 /\ q.sends = 0
            /\ q.ContentLength = 4096 => q.decoded

C1_Witness ==
    \E r \in Reqs :
        /\ Completed(reqs[r]) /\ reqs[r].path = "/_gomuks/push/fcm"
        /\ reqs[r].ContentLength = 4097
        /\ reqs[r].written = <<413>>

\* C2: no request whose body is larger than 4096 bytes is ever decoded or
\* dispatched, whatever length the transport declares (-1 included): it is
\* answered 413 before the body is decoded.
C2_OversizeBodyNeverDecoded ==
    \A r \in Reqs :
        LET q == reqs[r] IN
        (Entered(q) /\ q.path = "/_gomuks/push/fcm" /\ q.bodyLen > 4096) =>
            /\ ~q.decoded
            /\ q.sends = 0
            /\ q.written = <<413>>

\* C3: a request that parsed is rejected with 413 by the payload check
\* exactly when 4*ceil(n/3) > 4000 for its payload of n bytes, that is
\* exactly when n >= 3001; a rejected request never reaches Send and a
\* request that passes is handed to Send.
C3_PayloadLimit ==
    \A r \in Reqs :
        LET q == reqs[r]
            n == q.body.payloadLen
            rejected == q.written = <<413>> /\ q.sends = 0 /\ q.translated = 0 IN
        (Entered(q) /\ q.decoded /\ Parses(q.body)) =>
            /\ rejected <=> 4 * CeilThird(n) > 4000
            /\ rejected <=> n >= 3001
            /\ ~rejected <=> q.sends = 1

C3_Witness ==
    \E r \in Reqs :
        /\ Completed(reqs[r]) /\ reqs[r].decoded /\ Parses(reqs[r].body)
        /\ reqs[r].body.payloadLen = 3001
        /\ reqs[r].written = <<413>>

\* C4: a request on the push path whose body does not parse into the
\* expected shape (malformed JSON, a member of the wrong type, the required
\* token missing) is answered 400 and never reaches Send.
C4_BadShapeIs400 ==
    \A r \in Reqs :
        LET q == reqs[r] IN
        (Entered(q) /\ q.decoded /\ (~Parses(q.body) \/ ~q.body.hasToken)) =>
            /\ q.written = <<400>>
            /\ q.sends = 0

\* C5: when Send fails, the status is 404 if and only if the message is
\* exactly "Requested entity was not found." or exactly "SenderId mismatch";
\* every other failure yields 500, and no failure yields 200.
C5_FailureClassification ==
    \A r \in Reqs :
        LET q == reqs[r]
            known == q.outcome.text \in
                        {"Requested entity was not found.", "SenderId mismatch"} IN
        (Completed(q) /\ q.outcome.returned /\ ~q.outcome.ok) =>
            /\ q.written = <<404>> <=> known
            /\ q.written = <<500>> <=> ~known
            /\ q.written # <<200>>

C5_Witness ==
    \E r \in Reqs :
        /\ Completed(reqs[r]) /\ ~reqs[r].outcome.ok
        /\ reqs[r].outcome.text = "SenderId mismatch"
        /\ reqs[r].written = <<404>>

\* C6: 200 is written for a request if and only if it passed the path, the
\* content-length, the parse and the payload-size checks and Send returned
\* a message id; nothing is written as 200 while the handler runs.
C6_OkIffSent ==
    \A r \in Reqs :
        LET q == reqs[r]
            wrote200 == \E i \in 1..Len(q.written) : q.written[i] = 200 IN
        /\ Completed(q) =>
              (wrote200 <=> (Valid(q) /\ q.outcome.returned /\ q.outcome.ok))
        /\ ~Completed(q) => ~wrote200

C6_Witness ==
    \E r \in Reqs :
        /\ Completed(reqs[r]) /\ Valid(reqs[r])
        /\ reqs[r].outcome = [ok |-> TRUE, text |-> "msg-1", returned |-> TRUE]
        /\ reqs[r].written = <<200>>

\* C7: over the handling of one request Send is invoked exactly once when
\* the request is valid and never when a check rejects it; a failed Send is
\* not retried.
C7_OneSendPerValidRequest ==
    \A r \in Reqs :
        LET q == reqs[r] IN
        /\ q.sends <= 1
        /\ Entered(q) => (q.sends = IF Valid(q) THEN 1 ELSE 0)
        /\ (Completed(q) /\ q.outcome.returned /\ ~q.outcome.ok) => q.sends = 1

C7_Witness ==
    \E r \in Reqs :
        /\ Completed(reqs[r]) /\ Valid(reqs[r])
        /\ reqs[r].outcome.returned /\ ~reqs[r].outcome.ok
        /\ reqs[r].sends = 1

\* C8: a handler that has returned has written exactly one status, one of
\* 200, 400, 404, 413 and 500, and a handler that has not returned has
\* written none.
C8_ExactlyOneStatus ==
    \A r \in Reqs :
        LET q == reqs[r] IN
        /\ Completed(q) =>
              /\ Len(q.written) = 1
              /\ q.written[1] \in {200, 400, 404, 413, 500}
        /\ q.pc \in {"handling", "sending"} => q.written = <<>>

C8_Witness ==
    \E r \in Reqs :
        /\ Completed(reqs[r]) /\ reqs[r].decoded /\ ~Parses(reqs[r].body)
        /\ reqs[r].written = <<400>>

\* C9: after the termination signal, while the 5 seconds of the drain have
\* not passed, the process does not end with a request still being handled
\* whose provider call is in flight: its handler runs to its response first.
C9_InFlightCompletesBeforeExit ==
    (exitCode # "running" /\ sigPc = "shutdown") =>
        \A r \in Reqs : ~(reqs[r].pc = "killed" /\ reqs[r].sends = 1)

\* C10: the process exits non-zero only when the start failed or the
\* listener returned an error other than ErrServerClosed, both of which
\* happen before Shutdown is called; the expiry of the drain bound with a
\* request outstanding ends the process with status 0.
C10_DrainExpiryExitsZero ==
    /\ exitCode = "2" => sigPc \in {"unborn", "waiting"}
    /\ sigPc = "panicked" => exitCode = "0"


\* C11: once the termination signal has been received the process
\* eventually stops, however long the outstanding requests and their
\* provider calls take, a provider call that never returns included.
C11_SignalLeadsToStopped ==
    (sigPc = "shutdown") ~> (exitCode # "running")

\* the process has stopped after a signal with a provider call that had
\* not returned
C11_Witness ==
    /\ exitCode # "running"
    /\ sigPc \in {"shutdown", "panicked"}
    /\ \E r \in Reqs : reqs[r].pc = "killed" /\ reqs[r].sends = 1 /\ ~reqs[r].outcome.returned


\* base64.StdEncoding.DecodeString: the input is made of groups of 4
\* characters of the standard alphabet, the last of which may end with "="
\* or "=="; [ok, bytes].
DecodeString(str) ==
    LET n == Len(str)
        idx(c) == CHOOSE i \in 1..64 : StdAlphabet[i] = c
        inAlphabet(c) == \E i \in 1..64 : StdAlphabet[i] = c
        groups == n \div 4
        pad == IF n = 0 THEN 0
               ELSE IF str[n] # "=" THEN 0
               ELSE IF str[n - 1] # "=" THEN 1 ELSE 2
        wellFormed ==
            /\ n % 4 = 0
            /\ \A i \in 1..(n - pad) : inAlphabet(str[i])
        len == 3 * groups - pad
        six(i) == IF i <= n - pad THEN idx(str[i]) - 1 ELSE 0
        val(g) == six(4 * g + 1) * 262144 + six(4 * g + 2) * 4096
                  + six(4 * g + 3) * 64 + six(4 * g + 4)
        byteAt(j) ==
            LET g == (j - 1) \div 3
                k == (j - 1) % 3
            IN  CASE k = 0 -> val(g) \div 65536
                  [] k = 1 -> (val(g) \div 256) % 256
                  [] OTHER -> val(g) % 256
    IN  IF wellFormed
        THEN [ok |-> TRUE, bytes |-> [j \in 1..len |-> byteAt(j)]]
        ELSE [ok |-> FALSE, bytes |-> <<>>]

\* C12: for a PushRequest whose payload has an encoded length of at most
\* 4000, the message ToFCM builds has a Data["payload"] that standard padded
\* base64 decodes to the payload, byte for byte, and the token of the
\* request.
C12_PayloadRoundTrip ==
    \A r \in Reqs :
        LET q == reqs[r] IN
        (q.translated = 1 /\ 4 * CeilThird(Len(q.req.Payload)) <= 4000) =>
            /\ Len(q.req.Payload) = q.req.PayloadLen
            /\ Len(q.msg.DataPayload) = 4 * CeilThird(Len(q.req.Payload))
            /\ DecodeString(q.msg.DataPayload) = [ok |-> TRUE, bytes |-> q.req.Payload]
            /\ q.msg.Token = q.req.Token
            /\ q.req.Token = q.body.token
            /\ q.req.Payload = q.body.payload

C12_Witness ==
    \E r \in Reqs :
        /\ reqs[r].translated = 1
        /\ reqs[r].req.Payload = <<251, 255>>
        /\ reqs[r].req.Token = "abc"
        /\ reqs[r].msg.DataPayload = <<"+", "/", "8", "=">>
        /\ reqs[r].msg.Token = "abc"


\* C13: the priority of the translated message is "high" when high_priority
\* is true in the body and "normal" when it is false or absent, and never
\* anything else.
C13_PriorityMapping ==
    \A r \in Reqs :
        LET q == reqs[r]
            high == q.body.syntax = "object" /\ q.body.highPriority = "true" IN
        q.translated = 1 =>
            /\ q.msg.Priority \in {"high", "normal"}
            /\ high => q.msg.Priority = "high"
            /\ ~high => q.msg.Priority = "normal"

C13_Witness ==
    \E r \in Reqs :
        /\ reqs[r].translated = 1
        /\ reqs[r].body.syntax = "object"
        /\ reqs[r].body.highPriority = "absent"
        /\ reqs[r].msg.Priority = "normal"


\* what a request is made of
Input(q) == <<q.method, q.path, q.body, q.bodyLen, q.ContentLength>>

\* the request was dispatched to handlePushProxy
ByPushHandler(q) == Len(q.steps) > 0 /\ q.steps[1] = "route"

\* C14: the pipeline keeps no state between requests: two handlings of the
\* same input for which the provider returns the same outcome end with the
\* same status, whatever requests were handled before.
C14_SameInputSameStatus ==
    \A r1, r2 \in Reqs :
        LET p == reqs[r1]
            q == reqs[r2] IN
        (/\ Completed(p) /\ Completed(q)
         /\ ByPushHandler(p) /\ ByPushHandler(q)
         /\ Input(p) = Input(q) /\ p.outcome = q.outcome) =>
            p.written = q.written

\* two handlings of one input, both answered by the provider the same way
C14_Witness ==
    /\ Completed(reqs[1]) /\ Completed(reqs[2])
    /\ ByPushHandler(reqs[1])
    /\ Input(reqs[1]) = Input(reqs[2])
    /\ reqs[1].outcome.returned /\ reqs[1].outcome = reqs[2].outcome
    /\ reqs[1].written = <<404>> /\ reqs[2].written = <<404>>


Alone(q) ==
    LET u == HandleUntilSend(Request(q.method, q.path, q.body, q.bodyLen, q.ContentLength),
                             "client") IN
    IF u.pc = "done" THEN u.written ELSE HandleSendResult(u, q.outcome).written

\* the place of a step in validate, translate, provider call, classify, respond
Rank(step) ==
    CASE step \in {"route", "length", "decode", "payload"} -> 1
      [] step = "translate" -> 2
      [] step = "send" -> 3
      [] step = "classify" -> 4
      [] step = "respond" -> 5
      [] OTHER -> 0

\* the steps of one request are in order, none twice after validation, and
\* none without the ones before it
InOrder(steps) ==
    /\ \A i, j \in 1..Len(steps) :
          i < j => /\ Rank(steps[i]) <= Rank(steps[j])
                   /\ Rank(steps[i]) = Rank(steps[j]) => Rank(steps[i]) = 1
    /\ \A j \in 1..Len(steps) :
          Rank(steps[j]) \in 2..4 =>
              \E i \in 1..(j - 1) : Rank(steps[i]) = Rank(steps[j]) - 1

\* C17: whatever the other requests do, a request handled by the push
\* handler ends with the status it gets when handled alone on the same
\* input with the same outcome of Send, and its steps are in the order
\* validate, translate, provider call, classify, respond.
C17_IndependentAndSequential ==
    \A r \in Reqs :
        LET q == reqs[r] IN
        ByPushHandler(q) =>
            /\ InOrder(q.steps)
            /\ Completed(q) => q.written = Alone(q)
            /\ Completed(q) => q.steps[Len(q.steps)] = "respond"

\* a request answered 200 while another, still in Send, has not completed
C17_Witness ==
    \E r1, r2 \in Reqs :
        /\ reqs[r1].pc = "sending" /\ reqs[r1].steps[Len(reqs[r1].steps)] = "send"
        /\ Completed(reqs[r2]) /\ reqs[r2].written = <<200>>
        /\ reqs[r2].steps = <<"route", "length", "decode", "payload",
                              "translate", "send", "classify", "respond">>


\* the state of the service: 1 Starting, 2 Listening, 3 Draining (the signal
\* has been received), 4 Stopped
Lifecycle ==
    CASE exitCode # "running" -> 4
      [] inShutdown -> 3
      [] mainPc = "serving" -> 2
      [] OTHER -> 1

\* C18 as claimed: the lifecycle only moves forward, and once Draining is
\* entered no connection is accepted and no request begins handling.
C18_NoNewRequestOnceDraining ==
    [][/\ Lifecycle' >= Lifecycle
       /\ Lifecycle = 3 =>
             \A r \in Reqs :
                /\ reqs[r].pc = "idle" => reqs'[r].pc = "idle"
                /\ reqs[r].pc = "new" => reqs'[r].pc \in {"new", "idle"}]_vars

\* C18 as amended: the lifecycle only moves forward along Starting,
\* Listening, Draining, Stopped and never returns to Listening; once
\* Draining is entered no connection is accepted. A request that begins
\* handling during Draining arrived on a connection accepted before.
C18_LifecycleForward ==
    [][/\ Lifecycle' >= Lifecycle
       /\ (Lifecycle' = 2 => Lifecycle \in {1, 2})
       /\ Lifecycle >= 3 =>
             \A r \in Reqs : reqs[r].pc = "idle" => reqs'[r].pc = "idle"
       /\ \A r \in Reqs :
             (reqs[r].pc # reqs'[r].pc /\ reqs'[r].pc \in {"handling", "sending", "done"}) =>
                 reqs[r].pc \in {"new", "handling", "sending"}]_vars

\* the service is draining with a request in its handler and room for a
\* connection it does not accept
C18_Witness ==
    /\ Lifecycle = 3 /\ mainPc = "serving"
    /\ \E r \in Reqs : reqs[r].pc = "handling"
    /\ \E r \in Reqs : reqs[r].pc = "idle"


\* C19: fcmClient is assigned once, from nil, while the service is starting
\* and before it listens, and never again; no connection is accepted and no
\* Send is called while it is nil, no handler panics on a nil client, and
\* a failed initialisation ends the process with every slot idle.
C19_ClientAssignedOnce ==
    [][/\ fcmClient' # fcmClient =>
             /\ fcmClient = "nil" /\ fcmClient' = "client"
             /\ mainPc = "init" /\ Lifecycle = 1
       /\ mainPc' \in {"spawn", "listen", "serving"} => fcmClient' = "client"
       /\ \A r \in Reqs :
             /\ reqs'[r].pc # "idle" => fcmClient' = "client"
             /\ reqs'[r].sends > 0 => fcmClient' = "client"
             /\ reqs'[r].pc # "panicked"
       /\ (mainPc = "init" /\ fcmClient' = "nil" /\ mainPc' # "init") =>
             /\ exitCode' = "2" /\ mainPc' = "exited"
             /\ \A r \in Reqs : reqs'[r].pc = "idle"]_vars

\* a handler inside Send on the client assigned at the start
C19_Witness ==
    /\ fcmClient = "client" /\ mainPc = "serving"
    /\ \E r \in Reqs : reqs[r].pc = "sending" /\ reqs[r].sends = 1

====
